---- MODULE Spec2Model ----
(***************************************************************************)
(* Model of the union-find data structure UFData of src/src/types.h.       *)
(*                                                                         *)
(* A UFData object is a record [size, table, blocks, haschanged]:          *)
(*   size        _size                                                     *)
(*   table       *_table, a function 0..size-1 -> 0..size-1                *)
(*   blocks      _blocks, a pointer: Null or Ptr(b), where b is a function *)
(*               0..size-1 -> pointer to a list of indices                 *)
(*   haschanged  _haschanged                                               *)
(* A pointer is the empty tuple (nullptr) or a one-element tuple holding   *)
(* the object pointed to.  Every member function is an operator from the   *)
(* object (and the arguments) to the object after the call; the actions    *)
(* apply these operators to the one object uf, record the call in last and *)
(* whether unite has been called in united.                                *)
(*                                                                         *)
(* cp points to the object made from uf by the copy constructor, once it   *)
(* has been called: a record of the object and of the members whose        *)
(* storage it shares with uf.  on names the object of the last call.       *)
(***************************************************************************)
EXTENDS Integers, Sequences, FiniteSets, TLC

VARIABLES uf, last, united, cp, on

vars == <<uf, last, united, cp, on>>

\* largest size the object is constructed with
MaxSize == 4

\* largest size the object is constructed with where it is also copied
MaxCopySize == 2

----------------------------------------------------------------------------
(* pointers *)

Null == <<>>

Ptr(v) == <<v>>

Deref(p) == p[1]

----------------------------------------------------------------------------
(* UFData *)

\* std::vector::at(i) throws std::out_of_range unless i < size (i is a size_t)
InRange(u, i) == i < u.size

\* UFData(size_t size) with _haschanged initialised to true
ConstructDirty(n) ==
  [size |-> n, table |-> [i \in 0..(n - 1) |-> i], blocks |-> Null,
   haschanged |-> TRUE]

\* UFData(size_t size)
Construct(n) ==
  [size |-> n, table |-> [i \in 0..(n - 1) |-> i], blocks |-> Null,
   haschanged |-> FALSE]

\* find following a single parent link instead of looping to the root
FindRootOneLink(t, i) == t[i]

RECURSIVE FindRoot(_, _)
\* the do-while loop of find, on a table t and an in-range index i
FindRoot(t, i) == IF t[i] = i THEN i ELSE FindRoot(t, t[i])

\* find(i) of the object u, i in range
Find(u, i) == FindRoot(u.table, i)

RECURSIVE FindLinks(_, _)
\* the number of links to another index that the loop of find follows from i
FindLinks(t, i) == IF t[i] = i THEN 0 ELSE 1 + FindLinks(t, t[i])

\* unite linking the argument j (or i) itself instead of its root
UniteTableLinkElement(t, i, j) ==
  LET ii == FindRoot(t, i)
      jj == FindRoot(t, j)
  IN  IF ii < jj THEN [t EXCEPT ![j] = ii] ELSE [t EXCEPT ![i] = jj]

\* unite with the comparison reversed: the larger root survives
UniteTableLargerWins(t, i, j) ==
  LET ii == FindRoot(t, i)
      jj == FindRoot(t, j)
  IN  IF ii > jj THEN [t EXCEPT ![jj] = ii] ELSE [t EXCEPT ![ii] = jj]

\* unite without the comparison: the root of the first argument survives
UniteTableFirstWins(t, i, j) ==
  LET ii == FindRoot(t, i)
      jj == FindRoot(t, j)
  IN  [t EXCEPT ![jj] = ii]

\* the table after unite(i, j), i and j in range
UniteTable(t, i, j) ==
  LET ii == FindRoot(t, i)
      jj == FindRoot(t, j)
  IN  IF ii < jj THEN [t EXCEPT ![jj] = ii] ELSE [t EXCEPT ![ii] = jj]

\* unite setting _haschanged before the two find calls
UniteEarlyFlag(u, i, j) ==
  IF InRange(u, i) /\ InRange(u, j)
  THEN [u EXCEPT !.table = UniteTable(u.table, i, j), !.haschanged = TRUE]
  ELSE [u EXCEPT !.haschanged = TRUE]

\* unite setting _haschanged only when two distinct roots are joined
UniteFlagOnChange(u, i, j) ==
  IF InRange(u, i) /\ InRange(u, j)
  THEN [u EXCEPT !.table = UniteTable(u.table, i, j),
                 !.haschanged = (u.haschanged
                                 \/ FindRoot(u.table, i) # FindRoot(u.table, j))]
  ELSE u

\* unite(i, j): find(i) or find(j) throws before any write when out of range
Unite(u, i, j) ==
  IF InRange(u, i) /\ InRange(u, j)
  THEN [u EXCEPT !.table = UniteTable(u.table, i, j), !.haschanged = TRUE]
  ELSE u

\* whether unite(i, j) ends by an exception
UniteThrows(u, i, j) == ~(InRange(u, i) /\ InRange(u, j))

\* one iteration of flatten resetting the entry to i
FlattenStepReset(t, i) == [t EXCEPT ![i] = i]

\* one iteration of the loop of flatten
FlattenStep(t, i) == [t EXCEPT ![i] = FindRoot(t, i)]

RECURSIVE FlattenPrefix(_, _)
\* the table after the first k iterations (i = 0..k-1) of the loop of flatten
FlattenPrefix(t, k) ==
  IF k = 0 THEN t ELSE FlattenStep(FlattenPrefix(t, k - 1), k - 1)

\* flatten whose loop stops one index short of _size
FlattenShort(u) ==
  IF u.size = 0 THEN u
  ELSE [u EXCEPT !.table = FlattenPrefix(u.table, u.size - 1)]

\* flatten()
Flatten(u) == [u EXCEPT !.table = FlattenPrefix(u.table, u.size)]

\* first branch of get_blocks: one singleton list per index
FreshBlocks(n) == [i \in 0..(n - 1) |-> Ptr(<<i>>)]

\* one iteration of the reconciliation loop that forgets to clear entry i
ReconcileStepKeep(b, t, i) ==
  IF b[i] # Null /\ FindRoot(t, i) # i
  THEN LET ii == FindRoot(t, i)
       IN  [b EXCEPT ![ii] = Ptr(Deref(b[ii]) \o Deref(b[i]))]
  ELSE b

\* one iteration of the reconciliation loop inserting at begin() of the root's list
ReconcileStepPrepend(b, t, i) ==
  IF b[i] # Null /\ FindRoot(t, i) # i
  THEN LET ii == FindRoot(t, i)
       IN  [b EXCEPT ![ii] = Ptr(Deref(b[i]) \o Deref(b[ii])), ![i] = Null]
  ELSE b

\* one iteration of the reconciliation loop of get_blocks
ReconcileStep(b, t, i) ==
  IF b[i] # Null /\ FindRoot(t, i) # i
  THEN LET ii == FindRoot(t, i)
       IN  [b EXCEPT ![ii] = Ptr(Deref(b[ii]) \o Deref(b[i])), ![i] = Null]
  ELSE b

RECURSIVE ReconcilePrefix(_, _, _)
\* the blocks after the first k iterations of the reconciliation loop
ReconcilePrefix(b, t, k) ==
  IF k = 0 THEN b ELSE ReconcileStep(ReconcilePrefix(b, t, k - 1), t, k - 1)

\* get_blocks flattening the table before it reconciles
GetBlocksCompress(u) ==
  LET b0 == IF u.blocks = Null THEN FreshBlocks(u.size) ELSE Deref(u.blocks)
      t1 == FlattenPrefix(u.table, u.size)
  IN  IF u.haschanged
      THEN [u EXCEPT !.table = t1,
                     !.blocks = Ptr(ReconcilePrefix(b0, t1, u.size)),
                     !.haschanged = FALSE]
      ELSE [u EXCEPT !.blocks = Ptr(b0)]

\* get_blocks without the test for nullptr: singletons are built on every call
GetBlocksAlwaysFresh(u) ==
  LET b0 == FreshBlocks(u.size)
  IN  IF u.haschanged
      THEN [u EXCEPT !.blocks = Ptr(ReconcilePrefix(b0, u.table, u.size)),
                     !.haschanged = FALSE]
      ELSE [u EXCEPT !.blocks = Ptr(b0)]

\* get_blocks(): the object after the call; the call returns its _blocks
GetBlocks(u) ==
  LET b0 == IF u.blocks = Null THEN FreshBlocks(u.size) ELSE Deref(u.blocks)
  IN  IF u.haschanged
      THEN [u EXCEPT !.blocks = Ptr(ReconcilePrefix(b0, u.table, u.size)),
                     !.haschanged = FALSE]
      ELSE [u EXCEPT !.blocks = Ptr(b0)]

\* the loop of the copy constructor over *copy._blocks
CopyBlocks(b) ==
  [i \in DOMAIN b |-> IF b[i] = Null THEN Null ELSE Ptr(Deref(b[i]))]

\* copy constructor initialising _table with the pointer copy._table
CopySharingTable(u) ==
  [obj |-> [size |-> u.size,
            table |-> u.table,
            blocks |-> IF u.blocks # Null THEN Ptr(CopyBlocks(Deref(u.blocks)))
                       ELSE Null,
            haschanged |-> u.haschanged],
   shares |-> {"table"}]

\* UFData(const UFData& copy): the new object and the members whose storage
\* it shares with the object copied, none
Copy(u) ==
  [obj |-> [size |-> u.size,
            table |-> u.table,
            blocks |-> IF u.blocks # Null THEN Ptr(CopyBlocks(Deref(u.blocks)))
                       ELSE Null,
            haschanged |-> u.haschanged],
   shares |-> {}]

\* the object v once a call has left as w another object with which v shares
\* the storage of the members named in shares
Shared(v, w, shares) ==
  [v EXCEPT !.table = IF "table" \in shares THEN w.table ELSE @,
            !.blocks = IF "blocks" \in shares THEN w.blocks ELSE @]

\* the copy c (a pointer, possibly null) once a call has left the original as u1
CopyAfter(c, u1) ==
  IF c = Null THEN Null
  ELSE Ptr([Deref(c) EXCEPT !.obj = Shared(@, u1, Deref(c).shares)])

----------------------------------------------------------------------------
(* the calls made on the object *)

\* arguments of find and unite: every index in range and one out of range
Args(u) == 0..u.size

\* the record of a call: its name, arguments, the object before it, the
\* value find returned and whether it ended by std::out_of_range
Call(op, i, j, pre, ret, threw) ==
  [op |-> op, i |-> i, j |-> j, pre |-> pre, ret |-> ret, threw |-> threw]

Init ==
  \E n \in 0..MaxSize :
    /\ uf = Construct(n)
    /\ last = Call("construct", n, 0, Construct(n), 0, FALSE)
    /\ united = FALSE
    /\ cp = Null
    /\ on = "orig"

DoFind(i) ==
  /\ uf' = uf
  /\ last' = Call("find", i, 0, uf,
                  IF InRange(uf, i) THEN Find(uf, i) ELSE 0, ~InRange(uf, i))
  /\ UNCHANGED united
  /\ cp' = CopyAfter(cp, uf')
  /\ on' = "orig"

DoUnite(i, j) ==
  /\ uf' = Unite(uf, i, j)
  /\ last' = Call("unite", i, j, uf, 0, UniteThrows(uf, i, j))
  /\ united' = TRUE
  /\ cp' = CopyAfter(cp, uf')
  /\ on' = "orig"

DoFlatten ==
  /\ uf' = Flatten(uf)
  /\ last' = Call("flatten", 0, 0, uf, 0, FALSE)
  /\ UNCHANGED united
  /\ cp' = CopyAfter(cp, uf')
  /\ on' = "orig"

DoGetBlocks ==
  /\ uf' = GetBlocks(uf)
  /\ last' = Call("get_blocks", 0, 0, uf, 0, FALSE)
  /\ UNCHANGED united
  /\ cp' = CopyAfter(cp, uf')
  /\ on' = "orig"

Next ==
  \/ \E i \in Args(uf) : DoFind(i)
  \/ \E i \in Args(uf), j \in Args(uf) : DoUnite(i, j)
  \/ DoFlatten
  \/ DoGetBlocks

Spec == Init /\ [][Next]_vars

----------------------------------------------------------------------------
(* the calls made on the object and on a copy of it *)

InitCopy ==
  \E n \in 0..MaxCopySize :
    /\ uf = Construct(n)
    /\ last = Call("construct", n, 0, Construct(n), 0, FALSE)
    /\ united = FALSE
    /\ cp = Null
    /\ on = "orig"

\* the copy constructor is called once, with uf as its argument
DoCopy ==
  /\ cp = Null
  /\ cp' = Ptr(Copy(uf))
  /\ uf' = uf
  /\ last' = Call("copy", 0, 0, uf, 0, FALSE)
  /\ on' = "copy"
  /\ UNCHANGED united

\* a call on the copy that leaves its object as c1
OnCopy(c1, call) ==
  /\ cp' = Ptr([Deref(cp) EXCEPT !.obj = c1])
  /\ uf' = Shared(uf, c1, Deref(cp).shares)
  /\ last' = call
  /\ on' = "copy"
  /\ UNCHANGED united

DoFindCopy(i) ==
  /\ cp # Null
  /\ LET c == Deref(cp).obj
     IN  OnCopy(c, Call("find", i, 0, c,
                        IF InRange(c, i) THEN Find(c, i) ELSE 0, ~InRange(c, i)))

DoUniteCopy(i, j) ==
  /\ cp # Null
  /\ LET c == Deref(cp).obj
     IN  OnCopy(Unite(c, i, j), Call("unite", i, j, c, 0, UniteThrows(c, i, j)))

DoFlattenCopy ==
  /\ cp # Null
  /\ LET c == Deref(cp).obj
     IN  OnCopy(Flatten(c), Call("flatten", 0, 0, c, 0, FALSE))

DoGetBlocksCopy ==
  /\ cp # Null
  /\ LET c == Deref(cp).obj
     IN  OnCopy(GetBlocks(c), Call("get_blocks", 0, 0, c, 0, FALSE))

NextCopy ==
  \/ \E i \in Args(uf) : DoFind(i)
  \/ \E i \in Args(uf), j \in Args(uf) : DoUnite(i, j)
  \/ DoFlatten
  \/ DoGetBlocks
  \/ DoCopy
  \/ \E i \in Args(uf) : DoFindCopy(i)
  \/ \E i \in Args(uf), j \in Args(uf) : DoUniteCopy(i, j)
  \/ DoFlattenCopy
  \/ DoGetBlocksCopy

SpecCopy == InitCopy /\ [][NextCopy]_vars

----------------------------------------------------------------------------
(* vocabulary of the properties *)

\* the indices of the object
Idx == 0..(uf.size - 1)

\* the class of index i in the object u, as find observes it
ClassOf(u, i) == {k \in 0..(u.size - 1) : Find(u, k) = Find(u, i)}

\* the least element of a non-empty set of indices
MinOf(S) == CHOOSE m \in S : \A k \in S : m <= k

\* the set of elements of a list
Elems(l) == {l[k] : k \in 1..Len(l)}

\* the positions <<r, k>> at which index i occurs in the present lists of b
Occurrences(b, i) ==
  {rk \in UNION {{r} \X (1..Len(Deref(b[r]))) : r \in {q \in DOMAIN b : b[q] # Null}} :
     Deref(b[rk[1]])[rk[2]] = i}

\* the last call was a unite(i, j) that returned normally
UniteReturned == last.op = "unite" /\ ~last.threw

\* C1: whenever blocks has been built and the dirty flag is false, every
\* index occurs exactly once over all present block lists, it occurs in the
\* list keyed find(i), and every present key r satisfies find(r) = r.
C1_BlocksMatchFind ==
  (uf.blocks # Null /\ ~uf.haschanged) =>
    LET b == Deref(uf.blocks)
    IN  /\ DOMAIN b = Idx
        /\ \A i \in Idx :
             /\ Cardinality(Occurrences(b, i)) = 1
             /\ b[Find(uf, i)] # Null
             /\ i \in Elems(Deref(b[Find(uf, i)]))
        /\ \A r \in Idx : b[r] # Null => Find(uf, r) = r

\* a reconciling get_blocks has just merged lists into a list of three or more
C1_Witness ==
  /\ last.op = "get_blocks"
  /\ last.pre.blocks # Null
  /\ last.pre.haschanged
  /\ uf.blocks # last.pre.blocks
  /\ \E r \in Idx : Deref(uf.blocks)[r] # Null /\ Len(Deref(Deref(uf.blocks)[r])) >= 3

\* C2: find(i) is the minimum index of the class of i, and every key present
\* in the mapping returned by get_blocks is the minimum of its member list.
C2_MinimumRepresentative ==
  /\ \A i \in Idx : Find(uf, i) = MinOf(ClassOf(uf, i))
  /\ last.op = "get_blocks" =>
       \A r \in Idx : Deref(uf.blocks)[r] # Null =>
                        r = MinOf(Elems(Deref(Deref(uf.blocks)[r])))

\* get_blocks returned a class of three or more whose key was joined last
C2_Witness ==
  /\ last.op = "get_blocks"
  /\ \E r \in Idx :
       /\ Deref(uf.blocks)[r] # Null
       /\ Len(Deref(Deref(uf.blocks)[r])) >= 3
       /\ Deref(Deref(uf.blocks)[r])[1] = r
       /\ Deref(Deref(uf.blocks)[r])[2] > Deref(Deref(uf.blocks)[r])[3]

\* C3: unite(i, j) merges exactly the classes of i and j: afterwards
\* find(i) = find(j), and two indices share a root afterwards iff they did
\* before or both belonged to the class of i or of j before.
C3_UniteMergesExactly ==
  UniteReturned =>
    LET merged == ClassOf(last.pre, last.i) \cup ClassOf(last.pre, last.j)
    IN  /\ Find(uf, last.i) = Find(uf, last.j)
        /\ \A a \in Idx, b \in Idx :
             (Find(uf, a) = Find(uf, b))
               <=> \/ Find(last.pre, a) = Find(last.pre, b)
                   \/ a \in merged /\ b \in merged

\* unite has joined two classes of two or more, given by non-root members
C3_Witness ==
  /\ UniteReturned
  /\ Find(last.pre, last.i) # Find(last.pre, last.j)
  /\ Find(last.pre, last.i) # last.i
  /\ Find(last.pre, last.j) # last.j
  /\ Cardinality(ClassOf(uf, last.i)) = 4

\* C4: a freshly constructed object has parent[i] = i and find(i) = i for
\* every i, blocks absent and dirty false; get_blocks with no preceding unite
\* returns exactly size present entries, entry i being the list [i].
C4_FreshObject ==
  /\ last.op = "construct" =>
       /\ uf.size = last.i
       /\ DOMAIN uf.table = Idx
       /\ \A i \in Idx : uf.table[i] = i /\ Find(uf, i) = i
       /\ uf.blocks = Null
       /\ uf.haschanged = FALSE
  /\ (last.op = "get_blocks" /\ ~united) =>
       /\ DOMAIN Deref(uf.blocks) = Idx
       /\ \A i \in Idx : Deref(uf.blocks)[i] = Ptr(<<i>>)

\* get_blocks has returned on an object of the largest size never united
C4_Witness ==
  /\ last.op = "get_blocks"
  /\ ~united
  /\ last.pre.blocks = Null
  /\ uf.size = MaxSize

\* C5 as stated: unite(i, j) with find(i) = find(j) changes nothing, the
\* dirty flag included.
C5_UniteSameClassNoOp ==
  (UniteReturned /\ Find(last.pre, last.i) = Find(last.pre, last.j)) =>
    uf = last.pre

\* C5 amended: unite(i, j) with find(i) = find(j) leaves the parent table and
\* the blocks cache unchanged and leaves the dirty flag true.
C5_UniteSameClassSetsDirty ==
  (UniteReturned /\ Find(last.pre, last.i) = Find(last.pre, last.j)) =>
    /\ uf.table = last.pre.table
    /\ uf.blocks = last.pre.blocks
    /\ uf.haschanged = TRUE

\* unite of two distinct members of one class on a clean, materialized object
C5_Witness ==
  /\ UniteReturned
  /\ last.i # last.j
  /\ Find(last.pre, last.i) = Find(last.pre, last.j)
  /\ last.pre.blocks # Null
  /\ ~last.pre.haschanged
  /\ uf.haschanged

\* C6: unite(i, j) with roots ri # rj sets parent[max(ri, rj)] = min(ri, rj),
\* changes no other parent entry, leaves the blocks cache untouched and sets
\* dirty to true.
C6_UniteLinksLargerToSmaller ==
  (UniteReturned /\ Find(last.pre, last.i) # Find(last.pre, last.j)) =>
    LET ri == Find(last.pre, last.i)
        rj == Find(last.pre, last.j)
        hi == IF ri > rj THEN ri ELSE rj
        lo == IF ri > rj THEN rj ELSE ri
    IN  /\ uf.table[hi] = lo
        /\ \A k \in Idx \ {hi} : uf.table[k] = last.pre.table[k]
        /\ DOMAIN uf.table = DOMAIN last.pre.table
        /\ uf.blocks = last.pre.blocks
        /\ uf.haschanged = TRUE

\* unite(i, j) whose first root is the larger one, on a materialized object
C6_Witness ==
  /\ UniteReturned
  /\ Find(last.pre, last.i) > Find(last.pre, last.j)
  /\ last.pre.blocks # Null
  /\ ~last.pre.haschanged
  /\ uf.table # last.pre.table

\* C7: the object after unite(i, j) and the object after unite(j, i) give the
\* same find(k) for every index k.
C7_UniteCommutes ==
  UniteReturned =>
    \A k \in Idx : Find(uf, k) = Find(Unite(last.pre, last.j, last.i), k)

\* unite has joined two distinct classes given in descending order of root
C7_Witness ==
  /\ UniteReturned
  /\ Find(last.pre, last.i) > Find(last.pre, last.j)
  /\ last.i # Find(last.pre, last.i)
  /\ uf.table # last.pre.table

\* C8: unite(i, j) called again right after unite(i, j) yields the same
\* parent table, hence the same find results and the same get_blocks result.
C8_UniteIdempotent ==
  UniteReturned =>
    LET again == Unite(uf, last.i, last.j)
    IN  /\ again.table = uf.table
        /\ \A k \in Idx : Find(again, k) = Find(uf, k)
        /\ GetBlocks(again).blocks = GetBlocks(uf).blocks

\* unite has joined two classes through an argument two links below its root
C8_Witness ==
  /\ UniteReturned
  /\ Find(last.pre, last.i) # Find(last.pre, last.j)
  /\ last.pre.table[last.i] # Find(last.pre, last.i)
  /\ last.pre.table[last.i] # last.i

\* C9: flatten never changes the partition: find(i) after flatten, and after
\* every number of iterations of its loop, equals find(i) before it.
C9_FlattenKeepsPartition ==
  last.op = "flatten" =>
    /\ \A i \in Idx : Find(uf, i) = Find(last.pre, i)
    /\ \A k \in 0..uf.size : \A i \in Idx :
         FindRoot(FlattenPrefix(last.pre.table, k), i) = Find(last.pre, i)

\* flatten has shortened a chain of two or more links
C9_Witness ==
  /\ last.op = "flatten"
  /\ uf.table # last.pre.table
  /\ \E i \in Idx : last.pre.table[last.pre.table[i]] # last.pre.table[i]

\* C10: find(i) and unite(i, j) with an index outside [0, size) end by the
\* out-of-range exception and leave parent, blocks and dirty unchanged, also
\* when only the second index of unite is out of range.
C10_OutOfRangeThrows ==
  /\ (last.op = "find" /\ ~(last.i \in 0..(last.pre.size - 1))) =>
       last.threw /\ uf = last.pre
  /\ (last.op = "unite" /\ ~(last.i \in 0..(last.pre.size - 1)
                              /\ last.j \in 0..(last.pre.size - 1))) =>
       last.threw /\ uf = last.pre

\* unite with only the second index out of range, on a clean, materialized
\* object holding a class of two
C10_Witness ==
  /\ last.op = "unite"
  /\ last.threw
  /\ last.i < last.pre.size
  /\ last.j >= last.pre.size
  /\ Find(last.pre, last.i) # last.i
  /\ last.pre.blocks # Null
  /\ ~last.pre.haschanged

\* C11: the dirty flag follows the two-state machine: every unite call that
\* returns leaves dirty true, every get_blocks call leaves dirty false, and
\* find and flatten change neither dirty nor the blocks cache.
C11_DirtyStateMachine ==
  /\ UniteReturned => uf.haschanged = TRUE
  /\ last.op = "get_blocks" => uf.haschanged = FALSE
  /\ last.op \in {"find", "flatten"} =>
       /\ uf.haschanged = last.pre.haschanged
       /\ uf.blocks = last.pre.blocks

\* flatten has rewritten the table of a dirty, materialized object
C11_Witness ==
  /\ last.op = "flatten"
  /\ last.pre.haschanged
  /\ last.pre.blocks # Null
  /\ uf.table # last.pre.table
  /\ uf.haschanged

\* C13: find is a pure read without path compression: find(i), i in range,
\* leaves parent, blocks and dirty unchanged, returns an index r with
\* parent[r] = r, and find(find(i)) = find(i).
C13_FindPureRead ==
  (last.op = "find" /\ ~last.threw) =>
    /\ uf = last.pre
    /\ last.ret \in Idx
    /\ uf.table[last.ret] = last.ret
    /\ Find(uf, last.ret) = last.ret
    /\ Find(uf, Find(uf, last.i)) = Find(uf, last.i)

\* find has returned from an index two or more links below its root
C13_Witness ==
  /\ last.op = "find"
  /\ ~last.threw
  /\ uf.table[last.i] # last.i
  /\ uf.table[last.i] # last.ret
  /\ uf.table[uf.table[last.i]] # uf.table[last.i]

RECURSIVE AppendAscending(_, _)
\* the lists of b keyed by the indices of S, concatenated in ascending key order
AppendAscending(b, S) ==
  IF S = {} THEN <<>>
  ELSE LET m == MinOf(S) IN Deref(b[m]) \o AppendAscending(b, S \ {m})

\* the keys present in b, other than r, whose root in the object u is r
MovedTo(u, b, r) == {i \in DOMAIN b : b[i] # Null /\ i # r /\ Find(u, i) = r}

\* the last call was a get_blocks that reconciled blocks built before
Reconciled ==
  last.op = "get_blocks" /\ last.pre.blocks # Null /\ last.pre.haschanged

\* C14: a reconciling get_blocks is an in-place merge: the list of every
\* present key i that is no longer a root is appended, in its prior order and
\* in ascending order of i, to the list of its root, whose prior content stays
\* as a prefix; the entry of i becomes absent; a key that received no list
\* keeps its list unchanged.
C14_ReconcileMergesInPlace ==
  Reconciled =>
    LET old == Deref(last.pre.blocks)
        new == Deref(uf.blocks)
    IN  /\ DOMAIN new = DOMAIN old
        /\ \A i \in Idx :
             /\ old[i] = Null => new[i] = Null
             /\ (old[i] # Null /\ Find(last.pre, i) # i) => new[i] = Null
             /\ (old[i] # Null /\ Find(last.pre, i) = i) =>
                  /\ new[i] = Ptr(Deref(old[i])
                                  \o AppendAscending(old, MovedTo(last.pre, old, i)))
                  /\ MovedTo(last.pre, old, i) = {} => new[i] = old[i]

\* a reconciling get_blocks has appended two lists, one of two or more
\* members, to the list of one root
C14_Witness ==
  /\ Reconciled
  /\ \E r \in Idx :
       /\ Cardinality(MovedTo(last.pre, Deref(last.pre.blocks), r)) >= 2
       /\ \E i \in MovedTo(last.pre, Deref(last.pre.blocks), r) :
            Len(Deref(Deref(last.pre.blocks)[i])) >= 2

\* C15: after flatten every parent chain has depth at most 1:
\* parent[i] = find(i) and parent[parent[i]] = parent[i] for every i.
C15_FlattenDepthOne ==
  last.op = "flatten" =>
    \A i \in Idx :
      /\ uf.table[i] = Find(uf, i)
      /\ uf.table[i] = Find(last.pre, i)
      /\ uf.table[uf.table[i]] = uf.table[i]

\* flatten has collapsed a chain of three links
C15_Witness ==
  /\ last.op = "flatten"
  /\ \E i \in Idx :
       last.pre.table[last.pre.table[last.pre.table[i]]]
         # last.pre.table[last.pre.table[i]]
  /\ \A i \in Idx : uf.table[i] = 0

RECURSIVE UniteAll(_, _)
\* the object u after the unite calls of the list us of pairs <<i, j>>
UniteAll(u, us) ==
  IF us = <<>> THEN u
  ELSE UniteAll(Unite(u, Head(us)[1], Head(us)[2]), Tail(us))

\* a list is in strictly increasing order
StrictlyIncreasing(l) == \A k \in 1..(Len(l) - 1) : l[k] < l[k + 1]

\* C16: when get_blocks is first called only after all unions, every
\* returned member list is in strictly increasing order and starts with its
\* key; the concrete scenarios of sizes 6, 3 and 4 give the stated blocks.
C16_FirstBlocksSorted ==
  /\ (last.op = "get_blocks" /\ last.pre.blocks = Null) =>
       \A r \in Idx : Deref(uf.blocks)[r] # Null =>
         /\ StrictlyIncreasing(Deref(Deref(uf.blocks)[r]))
         /\ Deref(Deref(uf.blocks)[r])[1] = r
  /\ GetBlocks(UniteAll(Construct(6), <<(<<4, 1>>), (<<2, 5>>), (<<1, 2>>)>>)).blocks
       = Ptr([i \in 0..5 |-> CASE i = 0 -> Ptr(<<0>>)
                               [] i = 1 -> Ptr(<<1, 2, 4, 5>>)
                               [] i = 3 -> Ptr(<<3>>)
                               [] OTHER -> Null])
  /\ GetBlocks(Construct(3)).blocks = Ptr([i \in 0..2 |-> Ptr(<<i>>)])
  /\ GetBlocks(UniteAll(Construct(4), <<(<<0, 1>>), (<<2, 3>>), (<<1, 3>>)>>)).blocks
       = Ptr([i \in 0..3 |-> IF i = 0 THEN Ptr(<<0, 1, 2, 3>>) ELSE Null])

\* the first get_blocks, after unions left a chain of two links, has
\* returned a list of three or more
C16_Witness ==
  /\ last.op = "get_blocks"
  /\ last.pre.blocks = Null
  /\ united
  /\ \E i \in Idx : uf.table[uf.table[i]] # uf.table[i]
  /\ \E r \in Idx : Deref(uf.blocks)[r] # Null /\ Len(Deref(Deref(uf.blocks)[r])) >= 3

\* C17: parent[i] <= i and parent[i] < size for every index i, so find(i)
\* follows at most i parent links; the same holds of the table after every
\* number of iterations of the loop of flatten.
C17_ParentNotAbove ==
  /\ DOMAIN uf.table = Idx
  /\ \A i \in Idx : uf.table[i] <= i /\ uf.table[i] \in Idx
  /\ \A i \in Idx : FindLinks(uf.table, i) <= i
  /\ \A k \in 0..uf.size :
       LET t == FlattenPrefix(uf.table, k)
       IN  \A i \in Idx : t[i] <= i /\ t[i] \in Idx /\ FindLinks(t, i) <= i

\* find follows as many links from an index as the index allows, three
C17_Witness ==
  /\ uf.size = 4
  /\ FindLinks(uf.table, 3) = 3
  /\ uf.blocks # Null

\* C18: an index that has stopped being a root never becomes a root again,
\* and whenever blocks has been built, dirty or not, every current root has a
\* present entry, so that no iteration of the reconciliation loop appends to
\* an absent entry.
C18_RootsHaveBlocks ==
  /\ \A i \in Idx : Find(last.pre, i) # i => Find(uf, i) # i
  /\ uf.blocks # Null =>
       \A r \in Idx : Find(uf, r) = r => Deref(uf.blocks)[r] # Null
  /\ uf.blocks # Null =>
       \A k \in Idx :
         LET bk == ReconcilePrefix(Deref(uf.blocks), uf.table, k)
         IN  (bk[k] # Null /\ Find(uf, k) # k) => bk[Find(uf, k)] # Null

\* blocks built, an entry already absent, and a merge pending in a dirty object
C18_Witness ==
  /\ uf.blocks # Null
  /\ uf.haschanged
  /\ \E i \in Idx : Deref(uf.blocks)[i] = Null
  /\ \E i \in Idx : Deref(uf.blocks)[i] # Null /\ Find(uf, i) # i

\* C19: get_blocks never modifies the parent table, neither when it first
\* builds the blocks nor when it reconciles them.
C19_GetBlocksKeepsTable ==
  last.op = "get_blocks" =>
    /\ uf.size = last.pre.size
    /\ uf.table = last.pre.table
    /\ \A i \in Idx : FindLinks(uf.table, i) = FindLinks(last.pre.table, i)

\* a reconciling get_blocks has returned and a chain of two links remains
C19_Witness ==
  /\ Reconciled
  /\ uf.blocks # last.pre.blocks
  /\ \E i \in Idx : FindLinks(uf.table, i) >= 2

\* C20: get_blocks is stable while clean: called when blocks has been built
\* and dirty is false it changes nothing, also after a flatten in between.
C20_GetBlocksStable ==
  /\ (last.op = "get_blocks" /\ last.pre.blocks # Null /\ ~last.pre.haschanged) =>
       uf = last.pre
  /\ (uf.blocks # Null /\ ~uf.haschanged) =>
       /\ GetBlocks(uf).blocks = uf.blocks
       /\ GetBlocks(Flatten(uf)).blocks = uf.blocks

\* get_blocks has returned again on a clean object with merged blocks
C20_Witness ==
  /\ last.op = "get_blocks"
  /\ last.pre.blocks # Null
  /\ ~last.pre.haschanged
  /\ \E i \in Idx : Deref(uf.blocks)[i] = Null
  /\ \E r \in Idx : Deref(uf.blocks)[r] # Null
                     /\ ~StrictlyIncreasing(Deref(Deref(uf.blocks)[r]))

\* a call, other than the copy constructor, has acted on the original (on
\* the copy) while the copy exists
StepOnOrig == cp # Null /\ cp' # Null /\ on' = "orig"

StepOnCopy == cp # Null /\ cp' # Null /\ on' = "copy"

\* C12: copying yields an independent snapshot: the copy starts with the same
\* parent table, the same blocks cache, entry by entry, and the same dirty
\* flag as the original, and no later call on one of the two objects changes
\* the parent table, blocks cache or dirty flag of the other.
C12_CopyIndependent ==
  /\ [](last.op = "copy" =>
          /\ cp # Null
          /\ uf = last.pre
          /\ Deref(cp).obj.size = uf.size
          /\ Deref(cp).obj.table = uf.table
          /\ (Deref(cp).obj.blocks = Null) <=> (uf.blocks = Null)
          /\ uf.blocks # Null =>
               \A i \in Idx : Deref(Deref(cp).obj.blocks)[i] = Deref(uf.blocks)[i]
          /\ Deref(cp).obj.haschanged = uf.haschanged)
  /\ [][/\ StepOnOrig => Deref(cp').obj = Deref(cp).obj
        /\ StepOnCopy => uf' = uf]_vars

\* a copy made of an object with blocks built has been united and
\* reconciled, while the original stays clean with the blocks it had
C12_Witness ==
  /\ cp # Null
  /\ on = "copy"
  /\ last.op = "get_blocks"
  /\ uf.blocks # Null
  /\ ~uf.haschanged
  /\ Deref(cp).obj.table # uf.table
  /\ Deref(cp).obj.blocks # uf.blocks
  /\ \E i \in Idx : Deref(Deref(cp).obj.blocks)[i] = Null
  /\ ~Deref(cp).obj.haschanged

====
